---- MODULE Spec2Model ----
(***************************************************************************)
(* The paginated list-and-action views of the caza2026 admin panel:        *)
(* Inscripciones, Permisos (PermisoCaza), Reses, Logs and PagosRealizados. *)
(* One React component is mounted per behaviour (variable view); its       *)
(* useState cells are the variables, every event handler and every         *)
(* continuation after an await is one action.                              *)
(***************************************************************************)
EXTENDS Integers, Sequences, FiniteSets, TLC

VARIABLES
    view,             \* which list component is mounted
    items,            \* inscripciones / permisos / reses / logs / payments
    loading,          \* loading
    error,            \* error ("null" when unset)
    currentPage,      \* currentPage / paymentsPage
    totalPages,       \* totalPages
    totalRecords,     \* totalRecords
    searchTerm,       \* searchTerm
    expandedStates,   \* expandedStates: the indexes whose value is true
    sendingPayment,   \* sendingPayment: the keys whose value is true
    sendingCredential,\* sendingCredential / sendingPermiso: keys that are true
    sendingGuia,      \* sendingGuia: the keys whose value is true
    paymentAmounts,   \* paymentAmounts (Reses), keyed by row ID
    linkingData,      \* linkingData
    linkingError,     \* linkingError ("null" when unset)
    fetches,          \* page requests awaiting their response
    linkCalls,        \* handleLinkData invocations awaiting linkData / the re-fetch
    pending,          \* row-action handlers suspended at an await
    crashed,          \* an exception escaped during render: the tree is unmounted
    ev,               \* the last handler step taken (observation only)
    user,             \* AuthProvider: user ("null" when unset)
    authLoading,      \* AuthProvider: loading
    localStorage,     \* the entries caza_user and caza_login_time
    now,              \* Date.now(), in hours
    location,         \* the router's current path
    loginError,       \* Login: error ("null" when unset)
    opened,           \* rows whose document the browser has opened in a new tab
    docCalls,         \* log-view handlers suspended at their await
    statsMounted,     \* PermisosStats is mounted
    stats,            \* PermisosStats: stats.total_permisos
    statsLoading,     \* PermisosStats: loading
    statsError,       \* PermisosStats: error ("null" when unset)
    intervalId,       \* PermisosStats: the 60-second interval is set
    statsCalls,       \* getStats calls at their await: TRUE for a call of the
                      \* mounted instance, FALSE for one of an instance torn down
    lastToggle        \* history, kept by SpecToggle only: the paid toggle
                      \* requested most recently ([id, paid, set])

vars == <<view, items, loading, error, currentPage, totalPages, totalRecords,
          searchTerm, expandedStates, sendingPayment, sendingCredential,
          sendingGuia, paymentAmounts, linkingData, linkingError, fetches,
          linkCalls, pending, crashed, ev,
          user, authLoading, localStorage, now, location, loginError,
          opened, docCalls,
          statsMounted, stats, statsLoading, statsError, intervalId, statsCalls,
          lastToggle>>

(* the cells of the session gate and of the router *)
authVars == <<user, authLoading, localStorage, now, location, loginError>>

(* the cells of the mounted list view *)
listVars == <<view, items, loading, error, currentPage, totalPages, totalRecords,
              searchTerm, expandedStates, sendingPayment, sendingCredential,
              sendingGuia, paymentAmounts, linkingData, linkingError, fetches,
              linkCalls, pending, crashed, opened, docCalls,
              statsMounted, stats, statsLoading, statsError, intervalId, statsCalls,
          lastToggle>>

(* the documents opened and the log-view handlers in flight *)
docVars == <<opened, docCalls>>

(* the cells of the statistics view, its timer and its calls in flight *)
statsVars == <<statsMounted, stats, statsLoading, statsError, intervalId, statsCalls>>

----------------------------------------------------------------------------
(* Bounds of the model *)

MaxPages == 2        \* largest total_pages the server reports
MaxFetches == 2      \* page requests in flight at once
MaxPending == 2      \* row-action handlers in flight at once
MaxTrail == 2        \* entries the rows of a page accumulate locally

(* Program constants *)

RECORDS_PER_PAGE == 10
LOGS_PER_PAGE == 15

----------------------------------------------------------------------------
(* JavaScript strings that are searched are sequences of characters.       *)

toLowerChar(c) == CASE c = "A" -> "a" [] c = "B" -> "b" [] OTHER -> c

toLowerCase(s) == [i \in 1..Len(s) |-> toLowerChar(s[i])]

includes(s, t) == \E i \in 0..(Len(s) - Len(t)) : SubSeq(s, i + 1, i + Len(t)) = t

Undefined == <<"undefined">>      \* a list field the server response omits

----------------------------------------------------------------------------
(* Rows.  One record shape serves the three resources:                     *)
(*   id    numero_inscripcion / ID                                         *)
(*   email email / 'Direccion de correo electronico' / Email               *)
(*   name  nombre_establecimiento / 'Nombre y Apellido'                    *)
(*   doc   razon_social / 'DNI o Pasaporte' / DNI                          *)
(*   cat   'Categoria' / Especie                                           *)
(*   pago  'Estado de Pago'       cobro 'Estado de Cobro Enviado'          *)
(*   sent_statuses, history, is_paid, permanent_amount, docx_id            *)
(*   link  pdf_link / docx_link                                            *)

Row(id, email, name, doc, sent) ==
    [id |-> id, email |-> email, name |-> name, doc |-> doc, cat |-> <<"c">>,
     pago |-> "", cobro |-> "", sent_statuses |-> sent, history |-> <<>>,
     is_paid |-> FALSE, permanent_amount |-> 0, docx_id |-> "d1",
     link |-> "/doc"]

RowA == [Row("i1", "a@x", <<"A">>, <<>>, <<>>) EXCEPT !.permanent_amount = 5000]  \* complete row
RowB == Row("i2", "b@x", <<"b">>, <<>>, Undefined)      \* sent_statuses omitted
RowC == [Row("", "c@x", <<>>, <<"b">>, <<>>) EXCEPT !.permanent_amount = 5000]
                                                        \* no identifier, no display name
RowE == [Row("i5", "", <<"A", "b">>, <<>>, <<>>) EXCEPT !.link = ""]
                                                        \* no contact e-mail, no document

LogRow == Row("l1", "", <<"l">>, <<>>, <<>>)            \* a log entry / a payment

(* The backend.  The card views read a fixed two-page collection; the    *)
(* table views (Logs, Pagos) get any page count up to MaxPages, so that an *)
(* empty collection and a collection that shrinks between two requests     *)
(* occur.  A page beyond total_pages is empty.                             *)
CardPage(p) ==
    CASE p = 1 -> <<RowA, RowB>>
      [] p = 2 -> <<RowC, RowE>>
      [] OTHER -> <<>>

CardPages == 2

PageSize == IF view = "Logs" THEN LOGS_PER_PAGE ELSE RECORDS_PER_PAGE

Response(d, tp) ==
    [data |-> d, total_records |-> IF tp = 0 THEN 0 ELSE (tp - 1) * PageSize + 1,
     total_pages |-> tp]

Responses(p) ==
    IF view \in {"Inscripciones", "Permisos", "Reses"}
    THEN { Response(CardPage(p), CardPages) }
    ELSE { Response(d, tp) : <<d, tp>> \in
             { x \in { <<>>, <<LogRow>> } \X (0..MaxPages) : p > x[2] => x[1] = <<>> } }

EmptyResponse == [data |-> <<>>, total_records |-> 0, total_pages |-> 0]

----------------------------------------------------------------------------
Views == {"Inscripciones", "Permisos", "Reses", "Logs", "Pagos"}

CardViews == {"Inscripciones", "Permisos", "Reses"}

(* filteredInscripciones / filteredPermisos / filteredReses *)
Matches(r) ==
    LET hit(f) == f /= <<>> /\ includes(toLowerCase(f), toLowerCase(searchTerm))
    IN  IF view = "Reses" THEN hit(r.name) \/ hit(r.doc) \/ hit(r.cat)
        ELSE hit(r.name) \/ hit(r.doc)

filteredItems == SelectSeq(items, Matches)

(* What the render function shows *)
FullLoading ==
    IF view \in CardViews THEN loading /\ items = <<>> ELSE loading

BodyShown == ~crashed /\ ~FullLoading /\ error = "null"

ControlsShown ==
    /\ BodyShown
    /\ CASE view \in CardViews -> filteredItems /= <<>>
         [] view = "Pagos"     -> items /= <<>>
         [] OTHER              -> TRUE

----------------------------------------------------------------------------
(* no statistics view is mounted *)
NoToggle == [id |-> "", paid |-> FALSE, set |-> FALSE]

NoStats ==
    /\ statsMounted = FALSE
    /\ stats = 0
    /\ statsLoading = TRUE
    /\ statsError = "null"
    /\ intervalId = FALSE
    /\ statsCalls = <<>>

(* The step observed last: type of step, action kind, row identifier, page *)
Ev(type, kind, id, page) == [type |-> type, kind |-> kind, id |-> id, page |-> page]

(* Session Gate: AuthProvider, PrivateRoute, Login and the routes of App.  *)

SESSION_DURATION == 2        \* 2 * 60 * 60 * 1000 ms, counted in hours

MaxNow == 3                  \* the clock stops after this many hours

Null == <<"null">>           \* localStorage.getItem of an absent key

CREDENTIALS == [u \in {"Karen", "Emanuel", "Nico"} |->
                   CASE u = "Karen" -> "Karen321"
                     [] u = "Emanuel" -> "Emanuel321"
                     [] OTHER -> "Nico321"]

(* JavaScript truthiness of a string or null *)
truthy(str) == str /= "null" /\ str /= ""

truthyText(chars) == chars /= Null /\ chars /= <<>>

(* Date.now().toString(): decimal digits *)
digit(n) == CASE n = 0 -> "0" [] n = 1 -> "1" [] n = 2 -> "2" [] n = 3 -> "3"
              [] n = 4 -> "4" [] n = 5 -> "5" [] n = 6 -> "6" [] n = 7 -> "7"
              [] n = 8 -> "8" [] OTHER -> "9"

nowToString(n) == IF n < 10 THEN <<digit(n)>> ELSE <<digit(n \div 10), digit(n % 10)>>

digitValue(c) == CHOOSE n \in 0..9 : digit(n) = c

isDigit(c) == \E n \in 0..9 : digit(n) = c

(* parseInt: the value of the longest prefix of digits, NaN if it is empty *)
RECURSIVE digitsValue(_, _)
digitsValue(chars, acc) ==
    IF chars = <<>> \/ ~isDigit(Head(chars)) THEN acc
    ELSE digitsValue(Tail(chars), 10 * acc + digitValue(Head(chars)))

parseInt(chars) ==
    IF chars = <<>> \/ chars = Null \/ ~isDigit(Head(chars))
    THEN [nan |-> TRUE, val |-> 0]
    ELSE [nan |-> FALSE, val |-> digitsValue(chars, 0)]

(* now - parseInt(storedLoginTime) > SESSION_DURATION; false for NaN *)
sessionExpired(storedLoginTime) ==
    LET t == parseInt(storedLoginTime)
    IN  ~t.nan /\ now - t.val > SESSION_DURATION

(* The routes of App *)
route(path, element, wrapped, parent) ==
    [path |-> path, element |-> element, wrapped |-> wrapped, parent |-> parent]

AppRoutes ==
    { route("/login", "Login", FALSE, ""),
      route("/", "Inscripciones", TRUE, ""),
      route("/inscripciones", "Inscripciones", TRUE, ""),
      route("/permiso-caza", "PermisoCaza", TRUE, ""),
      route("/pagos", "PagosRealizados", TRUE, ""),
      route("/dashboard", "Dashboard", TRUE, ""),
      route("/dashboard/inscripciones", "InscripcionesStats", FALSE, "/dashboard"),
      route("/dashboard/permisos", "PermisosStats", FALSE, "/dashboard"),
      route("/dashboard/recaudaciones", "RecaudacionesStats", FALSE, "/dashboard") }

guardedOwn(r) == r.wrapped

(* a nested route renders inside its parent's element, hence inside the    *)
(* parent's PrivateRoute                                                   *)
guarded(r) == r.wrapped \/ \E q \in AppRoutes : q.path = r.parent /\ q.wrapped

ProtectedPaths == { r.path : r \in { q \in AppRoutes : guarded(q) } }

(* the routes whose element is a list or a statistics view *)
ViewRoutes == { r.path : r \in { q \in AppRoutes : q.element /= "Login" } }

Paths == {"/login", "/inscripciones", "/pagos", "/dashboard/permisos", "/reses"}

routeElement(path) ==
    CASE path = "/login" -> "Login"
      [] path \in ProtectedPaths -> "PrivateRoute"
      [] OTHER -> "NotFound"

(* PrivateRoute: what it returns *)
PrivateRoute(u, isLoading) ==
    IF isLoading THEN "Cargando"
    ELSE IF ~truthy(u) THEN "Navigate" ELSE "children"

(* What is on screen.  AuthProvider renders its children only when         *)
(* loading is false.                                                       *)
Shown ==
    IF authLoading THEN "nothing"
    ELSE CASE routeElement(location) = "Login" -> "login form"
           [] routeElement(location) = "PrivateRoute" ->
                 PrivateRoute(user, authLoading)
           [] OTHER -> "not found"

emptyStorage == [caza_user |-> "null", caza_login_time |-> Null]

logoutKeepsTime ==
    /\ user' = "null"
    /\ localStorage' = [localStorage EXCEPT !.caza_user = "null"]
    /\ location' = "/login"

(* logout(), as called by the Navbar button and by the mount effect *)
logoutEffect ==
    /\ user' = "null"
    /\ localStorage' = emptyStorage
    /\ location' = "/login"

(* AuthProvider's mount effect: the session check at application start *)
AuthMount ==
    /\ authLoading
    /\ LET storedUser == localStorage.caza_user
           storedLoginTime == localStorage.caza_login_time
       IN  IF truthy(storedUser) /\ truthyText(storedLoginTime)
           THEN IF sessionExpired(storedLoginTime)
                THEN /\ logoutEffect
                     /\ ev' = Ev("authChecked", "expired", "", 0)
                ELSE /\ user' = storedUser
                     /\ UNCHANGED <<localStorage, location>>
                     /\ ev' = Ev("authChecked", "restored", "", 0)
           ELSE /\ UNCHANGED <<user, localStorage, location>>
                /\ ev' = Ev("authChecked", "absent", "", 0)
    /\ authLoading' = FALSE
    /\ UNCHANGED <<now, loginError, listVars>>

loginPersistsFirst(username, password) ==
    /\ Shown = "login form"
    /\ localStorage' = [caza_user |-> username, caza_login_time |-> nowToString(now)]
    /\ IF username \in DOMAIN CREDENTIALS /\ CREDENTIALS[username] = password
       THEN /\ user' = username
            /\ location' = "/dashboard"
            /\ loginError' = "null"
       ELSE /\ loginError' = "Usuario o contrasena incorrectos"
            /\ UNCHANGED <<user, location>>
    /\ ev' = Ev("login", password, username, 0)
    /\ UNCHANGED <<authLoading, now, listVars>>

(* Login.handleSubmit and AuthProvider.login; the step records the pair    *)
(* that was submitted                                                      *)
login(username, password) ==
    /\ Shown = "login form"
    /\ IF username \in DOMAIN CREDENTIALS /\ CREDENTIALS[username] = password
       THEN /\ user' = username
            /\ localStorage' = [caza_user |-> username,
                                caza_login_time |-> nowToString(now)]
            /\ location' = "/dashboard"
            /\ loginError' = "null"
            /\ ev' = Ev("login", password, username, 0)
       ELSE /\ loginError' = "Usuario o contrasena incorrectos"
            /\ UNCHANGED <<user, localStorage, location>>
            /\ ev' = Ev("login", password, username, 0)
    /\ UNCHANGED <<authLoading, now, listVars>>

(* Navbar: Cerrar Sesion.  The Navbar belongs to Layout, which wraps the   *)
(* protected routes from outside PrivateRoute.                             *)
logout ==
    /\ ~authLoading
    /\ routeElement(location) = "PrivateRoute"
    /\ logoutEffect
    /\ loginError' = "null"
    /\ ev' = Ev("logout", "auth", "", 0)
    /\ UNCHANGED <<authLoading, now, listVars>>

(* <Navigate to="/login" replace /> returned by PrivateRoute *)
Redirect ==
    /\ Shown = "Navigate"
    /\ location' = "/login"
    /\ ev' = Ev("redirect", "auth", "", 0)
    /\ UNCHANGED <<user, authLoading, localStorage, now, loginError, listVars>>

(* a link or the history changes the path without reloading the app *)
goTo(path) ==
    /\ ~authLoading
    /\ path /= location
    /\ location' = path
    /\ loginError' = "null"
    /\ ev' = Ev("navigate", "auth", "", 0)
    /\ UNCHANGED <<user, authLoading, localStorage, now, listVars>>

(* the application is started (or reloaded) at a path *)
AppStart(path) ==
    /\ user' = "null"
    /\ authLoading' = TRUE
    /\ location' = path
    /\ loginError' = "null"
    /\ ev' = Ev("start", "auth", "", 0)
    /\ UNCHANGED <<localStorage, now, listVars>>

Tick ==
    /\ now < MaxNow
    /\ now' = now + 1
    /\ ev' = Ev("tick", "auth", "", 0)
    /\ UNCHANGED <<user, authLoading, localStorage, location, loginError, listVars>>

(* the gate of a list view that is on screen: a user is signed in *)
SignedIn ==
    /\ user = "Karen"
    /\ authLoading = FALSE
    /\ localStorage = [caza_user |-> "Karen", caza_login_time |-> nowToString(0)]
    /\ now = 0
    /\ location = CASE view = "Inscripciones" -> "/inscripciones"
                    [] view = "Permisos" -> "/permiso-caza"
                    [] view = "Reses" -> "/reses"
                    [] OTHER -> "/pagos"
    /\ loginError = "null"

(* the cells of a list view when it mounts *)
Mounted ==
    /\ view \in Views
    /\ items = <<>>
    /\ loading = TRUE
    /\ error = "null"
    /\ currentPage = 1
    /\ totalPages = IF view = "Pagos" THEN 1 ELSE 0
    /\ totalRecords = 0
    /\ searchTerm = <<>>
    /\ expandedStates = {}
    /\ sendingPayment = {}
    /\ sendingCredential = {}
    /\ sendingGuia = {}
    /\ paymentAmounts = [k \in {} |-> ""]
    /\ linkingData = FALSE
    /\ linkingError = "null"
    /\ fetches = <<[page |-> 1, via |-> "effect"]>>
    /\ linkCalls = <<>>
    /\ pending = <<>>
    /\ crashed = FALSE
    /\ ev = Ev("mount", "fetch", "", 1)
    /\ opened = {}
    /\ docCalls = <<>>
    /\ NoStats
    /\ lastToggle = NoToggle

Init == Mounted /\ SignedIn

Remove(s, i) == SubSeq(s, 1, i - 1) \o SubSeq(s, i + 1, Len(s))

rowVars == <<sendingPayment, sendingCredential, sendingGuia, pending>>
linkVars == <<linkingData, linkingError, linkCalls>>
localVars == <<searchTerm, expandedStates>>

----------------------------------------------------------------------------
(* Paged Collection Fetcher *)

(* The api.js wrappers.  fetchInscripciones, fetchPermisos, fetchLogs and  *)
(* fetchPayments catch every failure and return a structured empty         *)
(* response; fetchReses reports the failure to its caller.                 *)
fetchInscripciones(ok, resp) == [threw |-> FALSE, value |-> IF ok THEN resp ELSE EmptyResponse]

fetchPermisos(ok, resp) == [threw |-> FALSE, value |-> IF ok THEN resp ELSE EmptyResponse]

fetchLogs(ok, resp) == [threw |-> FALSE, value |-> IF ok THEN resp ELSE EmptyResponse]

fetchPayments(ok, resp) == [threw |-> FALSE, value |-> IF ok THEN resp ELSE EmptyResponse]

fetchReses(ok, resp) == [threw |-> ~ok, value |-> IF ok THEN resp ELSE EmptyResponse]

fetchPage(ok, resp) ==
    CASE view = "Inscripciones" -> fetchInscripciones(ok, resp)
      [] view = "Permisos"      -> fetchPermisos(ok, resp)
      [] view = "Logs"          -> fetchLogs(ok, resp)
      [] view = "Pagos"         -> fetchPayments(ok, resp)
      [] OTHER                  -> fetchReses(ok, resp)

(* The synchronous head of getInscripciones / getPermisos / getReses /     *)
(* getLogs / getPayments: flags are set and one request is issued.         *)
getPageStart(page, via) ==
    /\ Len(fetches) < MaxFetches
    /\ loading' = TRUE
    /\ error' = IF view \in CardViews THEN "null" ELSE error
    /\ fetches' = Append(fetches, [page |-> page, via |-> via])

(* Amounts: the number input yields a string, the database a number.  A    *)
(* cell of paymentAmounts is represented by its toString().                *)
numberToString(n) == IF n = 5000 THEN "5000" ELSE ""

parseFloat(str) == IF str = "5000" THEN 5000 ELSE 0

(* initialAmounts of getReses merged into paymentAmounts *)
mergeAmounts(amounts, data) ==
    LET withAmount == { i \in 1..Len(data) : data[i].permanent_amount /= 0 }
        ids == { data[i].id : i \in withAmount }
    IN  [k \in (DOMAIN amounts) \cup ids |->
            IF k \in ids
            THEN LET i == CHOOSE j \in withAmount :
                              /\ data[j].id = k
                              /\ \A m \in withAmount : data[m].id = k => m <= j
                 IN  numberToString(data[i].permanent_amount)
            ELSE amounts[k]]

(* The continuation of getX after the await: try body, catch and finally.  *)
getPageDone(r) ==
    /\ loading' = FALSE
    /\ IF ~r.threw
       THEN /\ items' = r.value.data
            /\ totalPages' = r.value.total_pages
            /\ totalRecords' = IF view = "Pagos" THEN totalRecords ELSE r.value.total_records
            /\ expandedStates' = IF view \in CardViews THEN {} ELSE expandedStates
            /\ paymentAmounts' = IF view = "Reses"
                                  THEN mergeAmounts(paymentAmounts, r.value.data)
                                  ELSE paymentAmounts
            /\ error' = error
       ELSE /\ error' = "No se pudieron cargar"
            /\ IF view \in {"Inscripciones", "Permisos"}
               THEN items' = <<>> /\ totalRecords' = 0 /\ totalPages' = 0
               ELSE UNCHANGED <<items, totalRecords, totalPages>>
            /\ UNCHANGED <<expandedStates, paymentAmounts>>

(* A page request resolves.  A request issued by handleLinkData resumes    *)
(* that handler: success alert, then finally setLinkingData(false).        *)
FetchResolve(i, ok, resp) ==
    /\ ~crashed
    /\ i \in DOMAIN fetches
    /\ getPageDone(fetchPage(ok, resp))
    /\ fetches' = Remove(fetches, i)
    /\ IF fetches[i].via = "link"
       THEN linkingData' = FALSE /\ UNCHANGED <<linkingError, linkCalls>>
       ELSE UNCHANGED linkVars
    /\ ev' = Ev(IF ok THEN "fetchOk" ELSE "fetchFail", fetches[i].via, "", fetches[i].page)
    /\ UNCHANGED <<view, currentPage, searchTerm, rowVars, crashed,
                   authVars, docVars, statsVars, lastToggle>>

(* Pagination controls: setCurrentPage, then the [currentPage] effect.     *)
PreviousDisabled ==
    IF view = "Pagos" THEN currentPage = 1 ELSE currentPage = 1 \/ loading

NextDisabled ==
    IF view = "Pagos" THEN currentPage = totalPages
    ELSE currentPage = totalPages \/ loading

Max(a, b) == IF a >= b THEN a ELSE b

Min(a, b) == IF a <= b THEN a ELSE b

PreviousTarget == IF view = "Pagos" THEN Max(currentPage - 1, 1) ELSE currentPage - 1

NextTarget == IF view = "Pagos" THEN Min(currentPage + 1, totalPages) ELSE currentPage + 1

ClickPrevious ==
    /\ ControlsShown
    /\ ~PreviousDisabled
    /\ currentPage' = PreviousTarget
    /\ currentPage' /= currentPage
    /\ getPageStart(currentPage', "effect")
    /\ ev' = Ev("pageRequest", "previous", "", currentPage')
    /\ UNCHANGED <<view, items, totalPages, totalRecords, localVars, rowVars,
                   paymentAmounts, linkVars, crashed,
                   authVars, docVars, statsVars, lastToggle>>

ClickNext ==
    /\ ControlsShown
    /\ ~NextDisabled
    /\ currentPage <= MaxPages
    /\ currentPage' = NextTarget
    /\ currentPage' /= currentPage
    /\ getPageStart(currentPage', "effect")
    /\ ev' = Ev("pageRequest", "next", "", currentPage')
    /\ UNCHANGED <<view, items, totalPages, totalRecords, localVars, rowVars,
                   paymentAmounts, linkVars, crashed,
                   authVars, docVars, statsVars, lastToggle>>

(* handleLinkData (Inscripciones): linkData(), then a re-fetch of the page *)
(* number captured when the button was clicked.                            *)
handleLinkData ==
    /\ view = "Inscripciones"
    /\ BodyShown
    /\ ~linkingData
    /\ linkingData' = TRUE
    /\ linkingError' = "null"
    /\ linkCalls' = Append(linkCalls, [page |-> currentPage])
    /\ ev' = Ev("linkStart", "link", "", currentPage)
    /\ UNCHANGED <<view, items, loading, error, currentPage, totalPages, totalRecords,
                   localVars, rowVars, paymentAmounts, fetches, crashed,
                   authVars, docVars, statsVars, lastToggle>>

LinkResolve(ok) ==
    /\ ~crashed
    /\ linkCalls /= <<>>
    /\ linkCalls' = Tail(linkCalls)
    /\ IF ok
       THEN /\ getPageStart(Head(linkCalls).page, "link")
            /\ UNCHANGED <<linkingData, linkingError>>
       ELSE /\ linkingError' = "Error al vincular los datos"
            /\ linkingData' = FALSE
            /\ UNCHANGED <<loading, error, fetches>>
    /\ ev' = Ev(IF ok THEN "linkOk" ELSE "linkFail", "link", "", Head(linkCalls).page)
    /\ UNCHANGED <<view, items, currentPage, totalPages, totalRecords,
                   localVars, rowVars, paymentAmounts, crashed,
                   authVars, docVars, statsVars, lastToggle>>

(* Search box and card header *)
SearchTerms == { <<>>, <<"B">> }

(* a search that is sent to the server *)
setSearchTermServerSide(t) ==
    /\ view \in CardViews
    /\ BodyShown
    /\ t /= searchTerm
    /\ searchTerm' = t
    /\ getPageStart(currentPage, "effect")
    /\ ev' = Ev("search", "local", "", currentPage)
    /\ UNCHANGED <<view, items, currentPage, totalPages, totalRecords,
                   expandedStates, rowVars, paymentAmounts, linkVars, crashed,
                   authVars, docVars, statsVars, lastToggle>>

setSearchTerm(t) ==
    /\ view \in CardViews
    /\ BodyShown
    /\ t /= searchTerm
    /\ searchTerm' = t
    /\ ev' = Ev("search", "local", "", currentPage)
    /\ UNCHANGED <<view, items, loading, error, currentPage, totalPages, totalRecords,
                   expandedStates, rowVars, paymentAmounts, linkVars, fetches, crashed,
                   authVars, docVars, statsVars, lastToggle>>

(* an accordion: opening one card closes the others *)
toggleExpandAccordion(index) ==
    /\ view \in CardViews
    /\ BodyShown
    /\ index \in 0..(Len(filteredItems) - 1)
    /\ expandedStates' = IF index \in expandedStates THEN {} ELSE {index}
    /\ ev' = Ev("expand", "local", "", currentPage)
    /\ UNCHANGED <<view, items, loading, error, currentPage, totalPages, totalRecords,
                   searchTerm, rowVars, paymentAmounts, linkVars, fetches, crashed,
                   authVars, docVars, statsVars, lastToggle>>

toggleExpand(index) ==
    /\ view \in CardViews
    /\ BodyShown
    /\ index \in 0..(Len(filteredItems) - 1)
    /\ expandedStates' = IF index \in expandedStates
                         THEN expandedStates \ {index}
                         ELSE expandedStates \cup {index}
    /\ ev' = Ev("expand", "local", "", currentPage)
    /\ UNCHANGED <<view, items, loading, error, currentPage, totalPages, totalRecords,
                   searchTerm, rowVars, paymentAmounts, linkVars, fetches, crashed,
                   authVars, docVars, statsVars, lastToggle>>

----------------------------------------------------------------------------
(* Row Action Dispatcher *)

amountOf(id) == IF id \in DOMAIN paymentAmounts THEN paymentAmounts[id] ELSE ""

(* the fields of the row object that a handler's continuation still reads  *)
(* after its await (the request payloads and the id of the local patch)    *)
closure(row) ==
    [id |-> row.id, email |-> row.email, name |-> row.name, cat |-> row.cat,
     docx_id |-> row.docx_id]

(* a handler suspended at an await: the row and amount it captured, the    *)
(* key of its in-flight flag, the call it awaits, the calls issued so far  *)
Handler(kind, row, key, stage, amount, paid) ==
    [kind |-> kind, row |-> closure(row), key |-> key, stage |-> stage,
     amount |-> amount, paid |-> paid, calls |-> 1]

listLen(l) == IF l = Undefined THEN 0 ELSE Len(l)

RECURSIVE trail(_)
trail(rows) ==
    IF rows = <<>> THEN 0
    ELSE (IF view = "Reses" THEN listLen(Head(rows).history)
          ELSE listLen(Head(rows).sent_statuses)) + trail(Tail(rows))

(* a handler is started only while the page's local lists have room for    *)
(* the entry of every handler in flight                                    *)
Room(cap) ==
    /\ Len(pending) < MaxPending
    /\ trail(items) + Len(pending) < cap

(* The card at position i of the filtered list is rendered.  Its buttons   *)
(* sit in the card details, which toggleExpand opens at any time without   *)
(* touching any other state; the click stands for "open if closed, click". *)
CardOpen(i) ==
    /\ view \in CardViews
    /\ BodyShown
    /\ i \in 1..Len(filteredItems)

rowFrame == <<view, items, loading, error, currentPage, totalPages, totalRecords,
              localVars, linkVars, fetches, crashed, authVars,
              docVars, statsVars>>

DispatchWithin(h, valid, cap) ==
    IF valid
    THEN /\ Room(cap)
         /\ pending' = Append(pending, h)
         /\ ev' = Ev("dispatch", h.kind, h.row.id, currentPage)
    ELSE /\ pending' = pending
         /\ ev' = Ev("invalid", h.kind, h.row.id, currentPage)

Dispatch(h, valid) == DispatchWithin(h, valid, MaxTrail)

(* Inscripciones: handleSendPayment(inscripcion, index) up to its first await *)
handleSendPayment(i) ==
    LET inscripcion == filteredItems[i]
        index == i - 1
        valid == inscripcion.email /= "" /\ inscripcion.id /= "" /\ inscripcion.name /= <<>>
    IN  /\ view = "Inscripciones"
        /\ CardOpen(i)
        /\ inscripcion.email /= ""
        /\ ~(index \in sendingPayment \/ inscripcion.pago = "Pagado")
        /\ Dispatch(Handler("cobro", inscripcion, index, "send", "", FALSE), valid)
        /\ sendingPayment' = IF valid THEN sendingPayment \cup {index} ELSE sendingPayment
        /\ UNCHANGED <<rowFrame, lastToggle, sendingCredential, sendingGuia, paymentAmounts>>

(* Inscripciones: handleSendCredential(inscripcion, index) up to its first await *)
handleSendCredential(i) ==
    LET inscripcion == filteredItems[i]
        index == i - 1
        valid == inscripcion.email /= ""
    IN  /\ view = "Inscripciones"
        /\ CardOpen(i)
        /\ inscripcion.email /= ""
        /\ ~(index \in sendingCredential)
        /\ Dispatch(Handler("credencial", inscripcion, index, "send", "", FALSE), valid)
        /\ sendingCredential' = IF valid THEN sendingCredential \cup {index} ELSE sendingCredential
        /\ UNCHANGED <<rowFrame, lastToggle, sendingPayment, sendingGuia, paymentAmounts>>

(* Permisos: handleSendPermisoPayment(permiso, index) up to its first await *)
handleSendPermisoPayment(i) ==
    LET permiso == filteredItems[i]
        index == i - 1
        valid == /\ permiso.email /= "" /\ permiso.id /= ""
                 /\ permiso.name /= <<>> /\ permiso.cat /= <<>>
    IN  /\ view = "Permisos"
        /\ CardOpen(i)
        /\ permiso.email /= ""
        /\ ~(index \in sendingPayment \/ permiso.cobro = "Enviado" \/ permiso.pago = "Pagado")
        /\ Dispatch(Handler("cobro", permiso, index, "send", "", FALSE), valid)
        /\ sendingPayment' = IF valid THEN sendingPayment \cup {index} ELSE sendingPayment
        /\ UNCHANGED <<rowFrame, lastToggle, sendingCredential, sendingGuia, paymentAmounts>>

(* Permisos: handleSendPermiso(permiso, index) up to its first await *)
handleSendPermiso(i) ==
    LET permiso == filteredItems[i]
        index == i - 1
        valid == permiso.email /= "" /\ permiso.id /= ""
    IN  /\ view = "Permisos"
        /\ CardOpen(i)
        /\ permiso.email /= ""
        /\ ~(index \in sendingCredential)
        /\ Dispatch(Handler("permiso", permiso, index, "send", "", FALSE), valid)
        /\ sendingCredential' = IF valid THEN sendingCredential \cup {index} ELSE sendingCredential
        /\ UNCHANGED <<rowFrame, lastToggle, sendingPayment, sendingGuia, paymentAmounts>>

(* a send-guide that skips the log call *)
handleSendGuiaUnlogged(i) ==
    LET res == filteredItems[i]
        resId == res.id
        valid == res.docx_id /= "" /\ res.email /= ""
    IN  /\ view = "Reses"
        /\ CardOpen(i)
        /\ ~(resId \in sendingGuia \/ res.docx_id = "")
        /\ Dispatch(Handler("guia", res, resId, "send", amountOf(resId), FALSE), valid)
        /\ sendingGuia' = IF valid THEN sendingGuia \cup {resId} ELSE sendingGuia
        /\ UNCHANGED <<rowFrame, lastToggle, sendingPayment, sendingCredential, paymentAmounts>>

(* Reses: handleSendGuia(res) up to its first await.  With an amount       *)
(* entered the first call is logResesAction, else sendResesGuia.           *)
handleSendGuia(i) ==
    LET res == filteredItems[i]
        resId == res.id
        amount == amountOf(resId)
        valid == res.docx_id /= "" /\ res.email /= ""
    IN  /\ view = "Reses"
        /\ CardOpen(i)
        /\ ~(resId \in sendingGuia \/ res.docx_id = "")
        /\ Dispatch(Handler("guia", res, resId, IF amount /= "" THEN "log" ELSE "send",
                            amount, FALSE), valid)
        /\ sendingGuia' = IF valid THEN sendingGuia \cup {resId} ELSE sendingGuia
        /\ UNCHANGED <<rowFrame, lastToggle, sendingPayment, sendingCredential, paymentAmounts>>

(* Reses: handleSendPayment(res) up to its await *)
handleSendPaymentReses(i) ==
    LET res == filteredItems[i]
        resId == res.id
        amount == amountOf(resId)
        valid == amount /= "" /\ res.email /= ""
    IN  /\ view = "Reses"
        /\ CardOpen(i)
        /\ ~(resId \in sendingPayment)
        /\ Dispatch(Handler("cobro", res, resId, "send", amount, FALSE), valid)
        /\ sendingPayment' = IF valid THEN sendingPayment \cup {resId} ELSE sendingPayment
        /\ UNCHANGED <<rowFrame, lastToggle, sendingCredential, sendingGuia, paymentAmounts>>

(* Reses: handleTogglePaid(res, paidStatus) up to its await; the radio's   *)
(* onChange fires for the option that is not checked.  The history         *)
(* variable lastToggle is left to the specification that uses the handler. *)
handleTogglePaidWithin(i, paidStatus, cap) ==
    LET res == filteredItems[i]
    IN  /\ view = "Reses"
        /\ CardOpen(i)
        /\ res.is_paid /= paidStatus
        /\ DispatchWithin(Handler("paid", res, res.id, "send", amountOf(res.id), paidStatus),
                          TRUE, cap)
        /\ UNCHANGED <<rowFrame, sendingPayment, sendingCredential, sendingGuia, paymentAmounts>>

handleTogglePaid(i, paidStatus) ==
    /\ handleTogglePaidWithin(i, paidStatus, MaxTrail)
    /\ UNCHANGED lastToggle

(* Reses: handleSaveAmount(res) up to its await *)
handleSaveAmount(i) ==
    LET res == filteredItems[i]
        amount == amountOf(res.id)
    IN  /\ view = "Reses"
        /\ CardOpen(i)
        /\ Dispatch(Handler("amount", res, res.id, "send", amount, FALSE), amount /= "")
        /\ UNCHANGED <<rowFrame, lastToggle, sendingPayment, sendingCredential, sendingGuia, paymentAmounts>>

(* what the operator types into the amount box of a Reses card *)
AmountInputs == { "5000" }

(* Reses: handleAmountChange(resId, value) *)
handleAmountChange(i, value) ==
    LET resId == filteredItems[i].id
    IN  /\ view = "Reses"
        /\ CardOpen(i)
        /\ value /= amountOf(resId)
        /\ paymentAmounts' = [k \in (DOMAIN paymentAmounts) \cup {resId} |->
                                 IF k = resId THEN value ELSE paymentAmounts[k]]
        /\ ev' = Ev("amountChange", "local", resId, currentPage)
        /\ UNCHANGED <<rowFrame, lastToggle, rowVars>>

(* updateSentStatusLocally of Inscripciones and of PermisoCaza: the spread *)
(* of an omitted sent_statuses throws a TypeError inside the updater.      *)
updateSentStatusThrows(rows, id) ==
    \E i \in DOMAIN rows : rows[i].id = id /\ rows[i].sent_statuses = Undefined

updateSentStatusLocally(rows, id, sentType) ==
    [i \in DOMAIN rows |->
        IF rows[i].id = id /\ rows[i].sent_statuses /= Undefined
        THEN [rows[i] EXCEPT !.sent_statuses = Append(@, sentType)]
        ELSE rows[i]]

(* updateSentStatusLocally of Reses: [...new Set([...(list || []), type])] *)
updateSentStatusLocallyReses(rows, resId, type) ==
    [i \in DOMAIN rows |->
        IF rows[i].id = resId
        THEN LET old == IF rows[i].sent_statuses = Undefined THEN <<>>
                        ELSE rows[i].sent_statuses
             IN  [rows[i] EXCEPT !.sent_statuses =
                     IF \E j \in DOMAIN old : old[j] = type THEN old
                     ELSE Append(old, type)]
        ELSE rows[i]]

(* updateHistoryLocally of Reses: the new entry goes first *)
updateHistoryLocally(rows, resId, action) ==
    [i \in DOMAIN rows |->
        IF rows[i].id = resId
        THEN [rows[i] EXCEPT !.history =
                 <<action>> \o (IF @ = Undefined THEN <<>> ELSE @)]
        ELSE rows[i]]

(* a handler whose finally block is missing *)
clearFlagNever(h) == UNCHANGED <<sendingPayment, sendingCredential, sendingGuia>>

(* finally { setSendingX(prev => ({ ...prev, [key]: false })) } *)
clearFlag(h) ==
    /\ sendingPayment' = IF h.kind = "cobro" THEN sendingPayment \ {h.key} ELSE sendingPayment
    /\ sendingCredential' = IF h.kind \in {"credencial", "permiso"}
                            THEN sendingCredential \ {h.key} ELSE sendingCredential
    /\ sendingGuia' = IF h.kind = "guia" THEN sendingGuia \ {h.key} ELSE sendingGuia

(* a patch that does not compare the row's ID *)
patchedEveryRow(h) ==
    [i \in DOMAIN items |-> [items[i] EXCEPT !.is_paid = h.paid]]

(* the local patch a handler applies after its last call succeeded *)
patched(h) ==
    CASE h.kind = "cobro" /\ view = "Reses" ->
            updateHistoryLocally(updateSentStatusLocallyReses(items, h.row.id, "cobro"),
                                 h.row.id, "cobro")
      [] h.kind = "guia" ->
            updateHistoryLocally(updateSentStatusLocallyReses(items, h.row.id, "guia"),
                                 h.row.id, "guia")
      [] h.kind = "paid" ->
            updateHistoryLocally(
                [i \in DOMAIN items |->
                    IF items[i].id = h.row.id
                    THEN [items[i] EXCEPT !.is_paid = h.paid] ELSE items[i]],
                h.row.id, IF h.paid THEN "pago SI" ELSE "pago NO")
      [] h.kind = "amount" ->
            updateHistoryLocally(
                [i \in DOMAIN items |->
                    IF items[i].id = h.row.id
                    THEN [items[i] EXCEPT !.permanent_amount = parseFloat(h.amount)]
                    ELSE items[i]],
                h.row.id, "monto")
      [] OTHER -> updateSentStatusLocally(items, h.row.id, h.kind)

(* a variant that applies the local patch before the outcome is known *)
settledOptimistic(h, ok) == patched(h)

(* the collection after the handler's last await: the try block patches    *)
(* it, the catch block only alerts                                         *)
settled(h, ok) == IF ok THEN patched(h) ELSE items

(* a handler that goes back to sending once the log call has returned *)
nextStageResend(h) == IF h.stage = "log" THEN "send" ELSE "log"

(* does the handler issue a further call after this one succeeded? *)
nextStage(h) ==
    CASE h.kind = "guia" /\ h.stage = "log" -> "send"
      [] h.kind \in {"cobro", "credencial", "permiso"} /\ view /= "Reses"
         /\ h.stage = "send" -> "log"
      [] OTHER -> "done"

(* The api.js functions the row handlers await.  sendPaymentLink,          *)
(* sendCredentialAPI, sendPermisoPaymentLink, sendPermisoEmailAPI and      *)
(* logSentItem log the failure and throw it on to the handler.             *)
apiCall(reached) == [threw |-> ~reached]

(* sendResesGuia, sendResesPayment and logResesAction: a failure is        *)
(* reported to the caller                                                  *)
resesApiCall(reached) == [threw |-> ~reached]

(* The call a handler awaits resolves: the rest of try, catch and finally  *)
ActionResolve(j, reached) ==
    /\ ~crashed
    /\ j \in DOMAIN pending
    /\ LET h == pending[j]
           ok == ~(IF view = "Reses" THEN resesApiCall(reached) ELSE apiCall(reached)).threw
       IN  IF ok /\ nextStage(h) /= "done"
           THEN /\ pending' = [pending EXCEPT ![j].stage = nextStage(h), ![j].calls = @ + 1]
                /\ ev' = Ev("callOk", h.kind, h.row.id, currentPage)
                /\ UNCHANGED <<items, crashed, sendingPayment, sendingCredential, sendingGuia>>
           ELSE /\ pending' = Remove(pending, j)
                /\ clearFlag(h)
                /\ IF ok /\ view /= "Reses" /\ updateSentStatusThrows(items, h.row.id)
                   THEN /\ crashed' = TRUE
                        /\ items' = items
                        /\ ev' = Ev("crash", h.kind, h.row.id, currentPage)
                   ELSE /\ items' = settled(h, ok)
                        /\ crashed' = crashed
                        /\ ev' = Ev(IF ok THEN "success" ELSE "fail",
                                    h.kind, h.row.id, currentPage)
    /\ UNCHANGED <<view, loading, error, currentPage, totalPages, totalRecords,
                   localVars, linkVars, fetches, paymentAmounts,
                   authVars, docVars, statsVars, lastToggle>>

----------------------------------------------------------------------------
FetchSteps ==
    \/ \E i \in 1..MaxFetches, ok \in BOOLEAN :
          \E resp \in (IF ok /\ i \in DOMAIN fetches THEN Responses(fetches[i].page) ELSE {EmptyResponse}) :
             FetchResolve(i, ok, resp)
    \/ ClickPrevious
    \/ ClickNext

LinkSteps ==
    \/ handleLinkData
    \/ \E ok \in BOOLEAN : LinkResolve(ok)

LocalSteps ==
    \/ \E t \in SearchTerms : setSearchTerm(t)
    \/ \E index \in 0..1 : toggleExpand(index)

RowSteps ==
    \/ \E i \in 1..2 : handleSendPayment(i)
    \/ \E i \in 1..2 : handleSendCredential(i)
    \/ \E i \in 1..2 : handleSendPermisoPayment(i)
    \/ \E i \in 1..2 : handleSendPermiso(i)
    \/ \E i \in 1..2 : handleSendGuia(i)
    \/ \E i \in 1..2 : handleSendPaymentReses(i)
    \/ \E i \in 1..2, paidStatus \in BOOLEAN : handleTogglePaid(i, paidStatus)
    \/ \E i \in 1..2 : handleSaveAmount(i)
    \/ \E i \in 1..2, value \in AmountInputs : handleAmountChange(i, value)
    \/ \E j \in 1..MaxPending, ok \in BOOLEAN : ActionResolve(j, ok)

(* The list views: every handler of pages, links, search and rows *)
Next == FetchSteps \/ LinkSteps \/ LocalSteps \/ RowSteps

Spec == Init /\ [][Next]_vars

(* The fetch path of the five views *)
NextFetch == FetchSteps \/ LinkSteps

SpecFetch == Init /\ [][NextFetch]_vars

(* The row actions of the three card views *)
InitRows == Init /\ view \in CardViews

NextRows == FetchSteps \/ RowSteps

SpecRows == InitRows /\ [][NextRows]_vars

(* Every network call of a row action is eventually answered.  Slot j of   *)
(* pending is answered whenever it stays occupied.                         *)
FairRows ==
    /\ SpecRows
    /\ \A j \in 1..MaxPending : WF_vars(\E ok \in BOOLEAN : ActionResolve(j, ok))

----------------------------------------------------------------------------
(* The session gate alone: the application starts at any path with any    *)
(* content of the two storage entries.                                     *)
StoredUsers == {"null", "", "Karen"}

StoredTimes == {Null, <<"a", "b", "c">>} \cup { nowToString(n) : n \in 0..1 }

InitAuth ==
    /\ Mounted
    /\ view = "Inscripciones"
    /\ user = "null"
    /\ authLoading = TRUE
    /\ localStorage \in [caza_user : StoredUsers, caza_login_time : StoredTimes]
    /\ now = 0
    /\ location \in Paths
    /\ loginError = "null"

Usernames == {"Karen", "Nico", "Mallory"}

Passwords == {"Karen321", "Nico321", ""}

NextAuth ==
    \/ AuthMount
    \/ \E username \in Usernames, password \in Passwords : login(username, password)
    \/ logout
    \/ Redirect
    \/ \E path \in Paths : goTo(path)
    \/ \E path \in Paths : AppStart(path)
    \/ Tick

SpecAuth == InitAuth /\ [][NextAuth]_vars

(* Properties *)

(* the rows of the local collection that carry identifier id *)
rowsOf(id) == { i \in DOMAIN items : items[i].id = id }

(* C1: in Inscripciones, Permisos and Reses, when the network call of a    *)
(* row action (payment link, credential / permit, guide, toggle paid,      *)
(* save amount) fails, the handler finishes without changing any status    *)
(* field of any row: sent statuses, paid flag, saved amount and history    *)
(* of the local collection are what they were.                             *)
C1_FailedActionLeavesRow == [][ev'.type = "fail" => items' = items]_vars

(* a call failed for a row that is on the displayed page, after an         *)
(* earlier action had already recorded something on that page              *)
C1_Witness ==
    /\ ev.type = "fail"
    /\ rowsOf(ev.id) /= {}
    /\ trail(items) > 0

(* the keys of the send handlers of the given kinds that await a call *)
keysOf(kinds) ==
    { pending[j].key : j \in { n \in DOMAIN pending : pending[n].kind \in kinds } }

FlagsMatchCalls ==
    /\ sendingPayment = keysOf({"cobro"})
    /\ sendingCredential = keysOf({"credencial", "permiso"})
    /\ sendingGuia = keysOf({"guia"})

(* the in-flight flag of kind "cobro" / "credencial" / "guia" is shown     *)
(* true for index k of an index-keyed view, for row ID k of Reses          *)
IndexFlag(flags, k) == view /= "Reses" /\ ~crashed /\ k \in flags

IdFlag(flags, k) == view = "Reses" /\ ~crashed /\ k \in flags

(* C2: a send action that passed validation has its in-flight flag true    *)
(* from before its first network call until its last call has resolved,    *)
(* and false afterwards, whether the call succeeded or failed; and when    *)
(* every network call is eventually answered, every flag that is shown     *)
(* true is eventually no longer shown true.                                *)
C2_FlagSetThenCleared ==
    /\ []FlagsMatchCalls
    /\ \A k \in {0, 1} :
          /\ IndexFlag(sendingPayment, k) ~> ~IndexFlag(sendingPayment, k)
          /\ IndexFlag(sendingCredential, k) ~> ~IndexFlag(sendingCredential, k)
    /\ \A k \in {"i1", "i2", "i5", ""} :
          /\ IdFlag(sendingPayment, k) ~> ~IdFlag(sendingPayment, k)
          /\ IdFlag(sendingGuia, k) ~> ~IdFlag(sendingGuia, k)

(* a send call has just failed and its flag is false again *)
C2_Witness ==
    /\ ev.type = "fail"
    /\ ev.kind \in {"cobro", "credencial", "permiso", "guia"}
    /\ sendingPayment = {} /\ sendingCredential = {} /\ sendingGuia = {}
    /\ pending = <<>>

(* does the list hold the tag?  An omitted list holds nothing.             *)
holds(list, tag) == list /= Undefined /\ \E n \in DOMAIN list : list[n] = tag

(* C3: when every call of a send-payment-link action on row r has          *)
(* succeeded, every row of the loaded page that is r has "cobro" among     *)
(* its sent statuses and every other row has the sent statuses it had,     *)
(* also when r's list was omitted by the server and when r is not on the   *)
(* page that is loaded by then.                                            *)
C3_PaymentSentMarksOnlyRow ==
    [][ev'.kind = "cobro" /\ ev'.type \in {"success", "crash"} =>
          /\ DOMAIN items' = DOMAIN items
          /\ \A i \in DOMAIN items :
                IF items[i].id = ev'.id
                THEN holds(items'[i].sent_statuses, "cobro")
                ELSE items'[i].sent_statuses = items[i].sent_statuses]_vars

(* C4: when a page fetch fails, the items, totalRecords and totalPages of  *)
(* a view that was displaying rows are left as they were; displayed data   *)
(* is never replaced by an empty list because of a failed fetch.           *)
C4_FailedFetchKeepsData ==
    [][ev'.type = "fetchFail" /\ items /= <<>> =>
          /\ items' = items
          /\ totalRecords' = totalRecords
          /\ totalPages' = totalPages]_vars

(* C5: whenever a page fetch has failed, the view's page-level error       *)
(* message is set, which tells the failure apart from an empty page.       *)
C5_FailedFetchSetsError == ev.type = "fetchFail" => error /= "null"

(* C6: a handler that awaits a call of a send-payment-link action was      *)
(* started for a row whose e-mail, identifier and display name are all     *)
(* non-empty, one of a credential / permit / guide action for a row whose  *)
(* e-mail is non-empty; and an action that failed validation has issued    *)
(* no call and set no flag.                                                *)
C6_CallsOnlyForValidRows ==
    /\ \A j \in DOMAIN pending :
          LET h == pending[j]
          IN  /\ h.kind = "cobro" =>
                    h.row.email /= "" /\ h.row.id /= "" /\ h.row.name /= <<>>
              /\ h.kind \in {"credencial", "permiso", "guia"} => h.row.email /= ""
    /\ ev.type = "invalid" => FlagsMatchCalls

(* C7: no page request is issued for a page number outside                 *)
(* 1..totalPages, in any view and state, also when the server reported     *)
(* totalPages = 0 or fewer pages than the current page number.             *)
C7_PageRequestInRange == ev.type = "pageRequest" => ev.page \in 1..totalPages

(* C8: for each row and each action kind at most one action is in flight.  *)
C8_OneActionPerRowAndKind ==
    \A j, n \in DOMAIN pending :
        j /= n => ~(pending[j].kind = pending[n].kind /\ pending[j].row.id = pending[n].row.id)

(* C9 as stated: a dispatched row action issues exactly one network call   *)
(* between its flag becoming true and becoming false again.                *)
C9_ExactlyOneCall == \A j \in DOMAIN pending : pending[j].calls = 1

(* C9, amended: a dispatched row action issues one network call, or two    *)
(* in sequence and never more: the send handlers of Inscripciones and      *)
(* Permisos call logSentItem after their send call has succeeded, and      *)
(* send-guide of Reses calls logResesAction before sendResesGuia when an   *)
(* amount is entered.  Send-payment, toggle-paid and save-amount of Reses  *)
(* issue one call.                                                         *)
C9_OneOrTwoCalls ==
    \A j \in DOMAIN pending :
        LET h == pending[j]
        IN  /\ h.calls \in 1..2
            /\ h.calls = 2 =>
                  \/ view /= "Reses" /\ h.stage = "log"
                  \/ view = "Reses" /\ h.kind = "guia" /\ h.stage = "send" /\ h.amount /= ""

(* a handler is awaiting its second call *)
C9_Witness == \E j \in DOMAIN pending : pending[j].calls = 2

(* C10: at most one page fetch of the view is in flight at any time.       *)
C10_OneFetchInFlight == Len(fetches) <= 1

(* C11: a page response is applied only if it answers the request for the  *)
(* current page: whenever the view has just applied a successful response  *)
(* and is idle without error, that response is the one for currentPage.    *)
C11_IdleShowsCurrentPage ==
    (ev.type = "fetchOk" /\ fetches = <<>> /\ ~loading /\ error = "null")
        => ev.page = currentPage

----------------------------------------------------------------------------
(* Search and expand over a loaded page.  The filter is a function of the  *)
(* loaded rows and the search term alone, so the page a successful fetch   *)
(* left behind is drawn from a catalogue of rows.                          *)

RowN == [Row("i9", "n@x", <<>>, <<>>, <<>>) EXCEPT !.cat = <<>>]   \* no searchable field

Catalogue == { RowA, RowB, RowC, RowE, RowN }

LoadedPages ==
    { <<r>> : r \in Catalogue } \cup
    { <<r, s>> : <<r, s>> \in { p \in Catalogue \X Catalogue : p[1] /= p[2] } }

InitSearch ==
    /\ view \in CardViews
    /\ items \in LoadedPages
    /\ loading = FALSE
    /\ error = "null"
    /\ currentPage = 1
    /\ totalPages = 1
    /\ totalRecords = Len(items)
    /\ searchTerm = <<>>
    /\ expandedStates = {}
    /\ sendingPayment = {}
    /\ sendingCredential = {}
    /\ sendingGuia = {}
    /\ paymentAmounts = IF view = "Reses" THEN mergeAmounts([k \in {} |-> ""], items)
                        ELSE [k \in {} |-> ""]
    /\ linkingData = FALSE
    /\ linkingError = "null"
    /\ fetches = <<>>
    /\ linkCalls = <<>>
    /\ pending = <<>>
    /\ crashed = FALSE
    /\ ev = Ev("fetchOk", "effect", "", 1)
    /\ opened = {}
    /\ docCalls = <<>>
    /\ NoStats
    /\ lastToggle = NoToggle
    /\ SignedIn

SpecSearch == InitSearch /\ [][LocalSteps]_vars

(* C12: changing the search term leaves totalRecords and totalPages as     *)
(* they are, and with the empty term the filtered view is the loaded page  *)
(* itself: every loaded row in the same order, also rows whose searchable  *)
(* fields are empty or missing.                                            *)
C12_EmptyTermShowsWholePage ==
    /\ [](searchTerm = <<>> => filteredItems = items)
    /\ [][ev'.type = "search" =>
            totalRecords' = totalRecords /\ totalPages' = totalPages]_vars

(* C13: at application start the gate resolves to a signed-in user exactly  *)
(* when a username and a login time are both stored and the time elapsed    *)
(* since the login time is at most the session duration; absent, partial,   *)
(* unparsable and expired entries resolve to no user, and an expired        *)
(* session's entries are cleared.                                           *)
C13_StartResolves ==
    [][ev'.type = "authChecked" =>
         LET t == parseInt(localStorage.caza_login_time)
             present == truthy(localStorage.caza_user)
                           /\ truthyText(localStorage.caza_login_time)
             valid == present /\ ~t.nan /\ now - t.val <= SESSION_DURATION
             expired == present /\ ~t.nan /\ now - t.val > SESSION_DURATION
         IN  /\ truthy(user') <=> valid
             /\ expired => localStorage' = emptyStorage
             /\ ~authLoading']_vars

(* C14: whenever a user is signed in and a protected view is on screen,    *)
(* the time elapsed since the stored login time is at most the session     *)
(* duration, also while the application stays open without a reload.       *)
C14_SessionWithinDuration ==
    LET t == parseInt(localStorage.caza_login_time)
    IN  (Shown = "children" /\ ~t.nan) => now - t.val <= SESSION_DURATION

(* C15: a login with a pair of the credential table signs that user in,    *)
(* stores the username with the current time and navigates to the main     *)
(* view; a login with any other pair yields a failure reason and leaves    *)
(* the user, the stored entries and the location as they were.             *)
C15_LoginMatchOrUntouched ==
    [][ev'.type = "login" =>
         IF ev'.id \in DOMAIN CREDENTIALS /\ CREDENTIALS[ev'.id] = ev'.kind
         THEN /\ user' = ev'.id
              /\ localStorage' = [caza_user |-> ev'.id,
                                  caza_login_time |-> nowToString(now)]
              /\ location' = "/dashboard"
         ELSE /\ loginError' /= "null"
              /\ user' = user
              /\ localStorage' = localStorage
              /\ location' = location]_vars

C15_Witness ==
    /\ ev.type = "login"
    /\ ev.id = "Nico" /\ ev.kind = "Nico321"
    /\ user = "Nico"
    /\ localStorage.caza_user = "Nico"
    /\ location = "/dashboard"

(* C16: a protected view is rendered only for a signed-in user.  While the *)
(* session check is running neither protected content nor the login form   *)
(* is on screen; without a user every route of a list or statistics view   *)
(* returns the redirect to the login view.                                 *)
C16_ProtectedOnlySignedIn ==
    /\ authLoading => Shown \notin {"children", "login form"}
    /\ Shown = "children" => truthy(user) /\ ~authLoading
    /\ (~authLoading /\ ~truthy(user) /\ location \in ViewRoutes) => Shown = "Navigate"
    /\ \A path \in ViewRoutes : routeElement(path) = "PrivateRoute"

C16_Witness ==
    /\ ~authLoading
    /\ user = "null"
    /\ location = "/dashboard/permisos"
    /\ Shown = "Navigate"

(* C17: logout clears both stored entries, leaves no user and navigates to *)
(* the login view; as long as nobody logs in the entries stay cleared and  *)
(* an application start resolves to no user.                               *)
C17_LogoutClearsSession ==
    /\ [][ev'.type = "logout" =>
            user' = "null" /\ localStorage' = emptyStorage /\ location' = "/login"]_vars
    /\ [][(localStorage = emptyStorage /\ ev'.type /= "login") =>
            localStorage' = emptyStorage]_vars
    /\ [][(localStorage = emptyStorage /\ ev'.type = "authChecked") =>
            user' = "null" /\ ~authLoading']_vars

C17_Witness ==
    /\ ev.type = "logout"
    /\ user = "null"
    /\ localStorage = emptyStorage
    /\ location = "/login"
    /\ Shown = "login form"

(* C20: after a failed page fetch nothing fetches by itself, and a manual  *)
(* re-fetch stays available: while the view is idle with its error shown   *)
(* and no request in flight, the user can start a new fetch by a page      *)
(* change or a refresh, and a fetch that succeeds with none left in        *)
(* flight leaves no error on screen.                                       *)
C20_ErrorIsRecoverable ==
    /\ (error /= "null" /\ ~loading /\ fetches = <<>>) =>
           ENABLED (ClickPrevious \/ ClickNext \/ handleLinkData)
    /\ (ev.type = "fetchOk" /\ fetches = <<>>) => error = "null"

----------------------------------------------------------------------------
(* Opening a row's document.  Inscripciones: the "Ver PDF" anchor, whose   *)
(* href the browser follows while its onClick runs handleSendPdf.  Reses:  *)
(* the "Editar Guia (Docx)" button, whose handler handleEditDocx opens the *)
(* document itself.                                                        *)

MaxDocCalls == 2     \* log-view handlers in flight at once

DocRoom ==
    /\ Len(docCalls) < MaxDocCalls
    /\ trail(items) + Len(docCalls) + Len(pending) < MaxTrail

(* the cells a click on a document button leaves alone *)
docFrame == <<view, items, loading, error, currentPage, totalPages, totalRecords,
              localVars, linkVars, fetches, crashed, authVars, statsVars, lastToggle>>

(* <a href={inscripcion.pdf_link} target="_blank" onClick={handleSendPdf}> *)
clickVerPdf(i) ==
    /\ view = "Inscripciones"
    /\ CardOpen(i)
    /\ truthy(filteredItems[i].link)
    /\ DocRoom
    /\ opened' = opened \cup {filteredItems[i].id}
    /\ docCalls' = Append(docCalls, [kind |-> "pdf", id |-> filteredItems[i].id])
    /\ ev' = Ev("docClick", "pdf", filteredItems[i].id, currentPage)
    /\ UNCHANGED <<docFrame, rowVars, paymentAmounts>>

(* handleEditDocx up to its await logResesAction(payload) *)
handleEditDocx(i) ==
    /\ view = "Reses"
    /\ CardOpen(i)
    /\ truthy(filteredItems[i].link)
    /\ DocRoom
    /\ opened' = opened
    /\ docCalls' = Append(docCalls, [kind |-> "docx", id |-> filteredItems[i].id])
    /\ ev' = Ev("docClick", "docx", filteredItems[i].id, currentPage)
    /\ UNCHANGED <<docFrame, rowVars, paymentAmounts>>

(* the tabs open after the log call returned: window.open follows the      *)
(* await inside handleEditDocx's try block; the anchor of "Ver PDF" has    *)
(* opened its document at the click                                        *)
openAfterLog(h, ok) ==
    IF h.kind = "docx" /\ ok THEN opened \cup {h.id} ELSE opened

(* The log call of a document handler returns: the rest of try, or catch.  *)
(* handleSendPdf's catch alerts, handleEditDocx's catch writes to the      *)
(* console only.                                                           *)
DocResolve(j, reached) ==
    /\ ~crashed
    /\ j \in DOMAIN docCalls
    /\ LET h == docCalls[j]
           ok == ~(IF h.kind = "docx" THEN resesApiCall(reached) ELSE apiCall(reached)).threw
       IN  /\ docCalls' = Remove(docCalls, j)
           /\ opened' = openAfterLog(h, ok)
           /\ IF ok /\ h.kind = "pdf" /\ updateSentStatusThrows(items, h.id)
              THEN /\ crashed' = TRUE
                   /\ items' = items
                   /\ ev' = Ev("crash", h.kind, h.id, currentPage)
              ELSE /\ crashed' = crashed
                   /\ items' = IF ~ok THEN items
                               ELSE IF h.kind = "docx"
                                    THEN updateHistoryLocally(items, h.id, "docx")
                                    ELSE updateSentStatusLocally(items, h.id, "pdf")
                   /\ ev' = Ev(IF ok THEN "success"
                               ELSE IF h.kind = "pdf" THEN "fail" ELSE "consoleError",
                               h.kind, h.id, currentPage)
    /\ UNCHANGED <<view, loading, error, currentPage, totalPages, totalRecords,
                   localVars, linkVars, fetches, paymentAmounts, rowVars, authVars,
                   statsVars, lastToggle>>

DocSteps ==
    \/ \E i \in 1..2 : clickVerPdf(i)
    \/ \E i \in 1..2 : handleEditDocx(i)
    \/ \E j \in 1..MaxDocCalls, ok \in BOOLEAN : DocResolve(j, ok)

(* The document buttons over a loaded page *)
InitDocs == InitSearch /\ view \in {"Inscripciones", "Reses"}

SpecDocs == InitDocs /\ [][DocSteps]_vars

(* C18: when the user opens a row's PDF or Docx document and the log-view  *)
(* call returns, the document has been opened, whether the call succeeded  *)
(* or failed.                                                              *)
C18_DocumentOpensAnyway ==
    (ev.kind \in {"pdf", "docx"} /\ ev.type \in {"success", "fail", "consoleError", "crash"})
        => ev.id \in opened

(* C19: every failure of a fetch or of a row action is caught by the       *)
(* handler that triggered it and ends in a message the user can see (page  *)
(* text, inline text or an alert); none is swallowed and none escapes as   *)
(* an unhandled exception.                                                 *)
FailureSteps == {"fetchFail", "linkFail", "fail", "consoleError", "crash"}

MessageVisible ==
    \/ error /= "null"
    \/ linkingError /= "null"
    \/ ev.type = "fail"

C19_EveryFailureVisible ==
    ev.type \in FailureSteps => (~crashed /\ MessageVisible)

----------------------------------------------------------------------------
(* the tags of a row's sent_statuses; an omitted list has none *)
tags(row) == IF row.sent_statuses = Undefined THEN <<>> ELSE row.sent_statuses

isPrefix(s, t) == Len(s) <= Len(t) /\ SubSeq(t, 1, Len(s)) = s

noRepeat(s) == \A i, j \in DOMAIN s : s[i] = s[j] => i = j

(* C21: between two page fetches a row's sent statuses are an append-only  *)
(* set: no local step removes or replaces a tag that is present, and no    *)
(* tag occurs twice, however many send actions succeed on the row.         *)
C21_SentStatusesAppendOnlySet ==
    /\ [](\A i \in DOMAIN items : noRepeat(tags(items[i])))
    /\ [][ev'.type \notin {"fetchOk", "fetchFail"} =>
            /\ Len(items') = Len(items)
            /\ \A i \in DOMAIN items : isPrefix(tags(items[i]), tags(items'[i]))]_vars

(* C22: a successful toggle of the paid status to v on the row with a      *)
(* given ID sets is_paid to v on that row only (its history gains the      *)
(* entry); every other row of the loaded page, the page number,            *)
(* totalPages and totalRecords stay as they were and no page fetch is      *)
(* issued.                                                                 *)
C22_TogglePaidOnlyThatRow ==
    [][(ev'.type = "success" /\ ev'.kind = "paid") =>
         \E j \in DOMAIN pending :
            /\ pending' = Remove(pending, j)
            /\ pending[j].kind = "paid"
            /\ pending[j].row.id = ev'.id
            /\ Len(items') = Len(items)
            /\ \A i \in DOMAIN items :
                  IF items[i].id = ev'.id
                  THEN items'[i] = [items[i] EXCEPT !.is_paid = pending[j].paid,
                                                    !.history = items'[i].history]
                  ELSE items'[i] = items[i]
            /\ UNCHANGED <<currentPage, totalPages, totalRecords, fetches, loading>>]_vars

C22_Witness ==
    /\ ev.type = "success" /\ ev.kind = "paid"
    /\ Len(items) = 2
    /\ \E i, k \in DOMAIN items :
          /\ items[i].id = ev.id /\ items[i].is_paid
          /\ items[k].id /= ev.id /\ ~items[k].is_paid

----------------------------------------------------------------------------
(* Search and expand next to the page fetches of the three card views *)
NextLocal == FetchSteps \/ LocalSteps

SpecLocal == InitRows /\ [][NextLocal]_vars

(* C23: every successful page fetch leaves all cards collapsed, whatever   *)
(* was expanded before; between fetches a toggle flips the flag of its     *)
(* card and no other, so several cards can be expanded at the same time.   *)
C23_ExpandResetsOnFetch ==
    /\ [][ev'.type = "fetchOk" => expandedStates' = {}]_vars
    /\ [][ev'.type = "expand" =>
            \E index \in 0..1 :
               /\ (index \in expandedStates') = (index \notin expandedStates)
               /\ expandedStates' \ {index} = expandedStates \ {index}]_vars

C23_Witness ==
    /\ ev.type = "expand"
    /\ expandedStates = {0, 1}
    /\ Len(filteredItems) = 2

----------------------------------------------------------------------------
(* PermisosStats: a statistics view that refreshes itself every 60 seconds *)

MaxStatsCalls == 3   \* getStats calls in flight at once

StatsTotals == {0, 3, 4}     \* total_permisos the server may report

statsFrame == <<view, items, loading, error, currentPage, totalPages, totalRecords,
                localVars, rowVars, paymentAmounts, linkVars, fetches, crashed,
                docVars, authVars, lastToggle>>

(* getStats up to its await *)
getStatsStart == statsCalls' = Append(statsCalls, TRUE)

(* the body of PermisosStats is rendered, with its refresh button *)
StatsBodyShown ==
    /\ statsMounted
    /\ ~(statsLoading /\ stats = 0)
    /\ statsError = "null"

(* mount: useState initial values, then the effect: getStats, setInterval *)
StatsMount ==
    /\ ~statsMounted
    /\ Len(statsCalls) < MaxStatsCalls
    /\ statsMounted' = TRUE
    /\ stats' = 0
    /\ statsLoading' = TRUE
    /\ statsError' = "null"
    /\ getStatsStart
    /\ intervalId' = TRUE
    /\ ev' = Ev("statsMount", "stats", "", 0)
    /\ UNCHANGED statsFrame

(* the interval callback *)
IntervalFires ==
    /\ intervalId
    /\ Len(statsCalls) < MaxStatsCalls
    /\ getStatsStart
    /\ ev' = Ev("timer", "stats", "", 0)
    /\ UNCHANGED <<statsMounted, stats, statsLoading, statsError, intervalId, statsFrame>>

(* the button "Actualizar Datos", disabled while loading *)
clickActualizar ==
    /\ StatsBodyShown
    /\ ~statsLoading
    /\ Len(statsCalls) < MaxStatsCalls
    /\ getStatsStart
    /\ ev' = Ev("refresh", "stats", "", 0)
    /\ UNCHANGED <<statsMounted, stats, statsLoading, statsError, intervalId, statsFrame>>

(* a teardown that leaves the interval running *)
StatsUnmountNoCleanup ==
    /\ statsMounted
    /\ statsMounted' = FALSE
    /\ intervalId' = intervalId
    /\ statsCalls' = [i \in DOMAIN statsCalls |-> FALSE]
    /\ ev' = Ev("statsUnmount", "stats", "", 0)
    /\ UNCHANGED <<stats, statsLoading, statsError, statsFrame>>

(* teardown: the effect's cleanup, clearInterval(intervalId).  The calls   *)
(* in flight stay in flight; they belong to an instance that is gone.      *)
StatsUnmount ==
    /\ statsMounted
    /\ statsMounted' = FALSE
    /\ intervalId' = FALSE
    /\ statsCalls' = [i \in DOMAIN statsCalls |-> FALSE]
    /\ ev' = Ev("statsUnmount", "stats", "", 0)
    /\ UNCHANGED <<stats, statsLoading, statsError, statsFrame>>

(* getStats after its await: try body or catch, then finally.  The setters *)
(* of an instance that was torn down change nothing: React drops them.     *)
StatsResolve(j, ok, total) ==
    /\ j \in DOMAIN statsCalls
    /\ statsCalls' = Remove(statsCalls, j)
    /\ IF statsCalls[j]
       THEN /\ stats' = IF ok THEN total ELSE stats
            /\ statsError' = IF ok THEN statsError ELSE "No se pudieron cargar"
            /\ statsLoading' = FALSE
            /\ ev' = Ev(IF ok THEN "statsOk" ELSE "statsFail", "stats", "", 0)
       ELSE /\ UNCHANGED <<stats, statsError, statsLoading>>
            /\ ev' = Ev("statsDropped", "stats", "", 0)
    /\ UNCHANGED <<statsMounted, intervalId, statsFrame>>

NextStats ==
    \/ StatsMount
    \/ IntervalFires
    \/ clickActualizar
    \/ StatsUnmount
    \/ \E j \in 1..MaxStatsCalls, ok \in BOOLEAN, total \in StatsTotals :
          StatsResolve(j, ok, total)

InitStats == Init /\ view = "Inscripciones"

SpecStats == InitStats /\ [][NextStats]_vars

(* C25: the 60-second timer of the statistics view is cancelled when the   *)
(* view is torn down: afterwards the timer starts no fetch, and the result *)
(* of a fetch is not applied to the state of the torn-down view.           *)
C25_TimerCancelledAtTeardown ==
    /\ [](~statsMounted => ~intervalId)
    /\ [][ev'.type = "timer" => statsMounted /\ statsMounted']_vars
    /\ [][(~statsMounted /\ ~statsMounted') =>
            UNCHANGED <<stats, statsLoading, statsError>>]_vars

C25_Witness ==
    /\ ev.type = "statsDropped"
    /\ ~statsMounted
    /\ ~intervalId
    /\ stats /= 0

----------------------------------------------------------------------------
(* the flags of the given kinds of an index-keyed view *)
flagsOf(kinds) == IF kinds = {"cobro"} THEN sendingPayment ELSE sendingCredential

(* C26: in Inscripciones and Permisos, whose in-flight flags are keyed by  *)
(* the position in the filtered list, a card is shown sending only if an   *)
(* action on the row of that card is in flight, and the card of a row      *)
(* whose action is in flight is shown sending, also after the page or the  *)
(* search term has changed.                                                *)
C26_FlagOnlyOnItsRow ==
    (view \in {"Inscripciones", "Permisos"} /\ BodyShown) =>
        \A kinds \in {{"cobro"}, {"credencial", "permiso"}} :
           /\ \A k \in flagsOf(kinds) :
                 (k + 1) \in DOMAIN filteredItems =>
                    \E j \in DOMAIN pending :
                       /\ pending[j].kind \in kinds
                       /\ pending[j].row.id = filteredItems[k + 1].id
           /\ \A j \in DOMAIN pending, p \in DOMAIN filteredItems :
                 (pending[j].kind \in kinds /\ pending[j].row.id = filteredItems[p].id)
                    => (p - 1) \in flagsOf(kinds)

----------------------------------------------------------------------------
(* handleLinkData has resumed after "await getInscripciones" and shows     *)
(* alert('Datos vinculados y actualizados correctamente.')                 *)
linkSuccessAlert == ev.kind = "link" /\ ev.type \in {"fetchOk", "fetchFail"}

(* C28: in Inscripciones the link-data action re-fetches the current page  *)
(* after the link request has succeeded; its success message is shown only *)
(* if the link request and the re-fetch both succeeded; and the linking    *)
(* flag is false again once the action is over, on every path.             *)
C28_LinkSuccessOnlyIfBoth ==
    /\ [][ev'.type = "linkOk" =>
            fetches' = Append(fetches, [page |-> currentPage, via |-> "link"])]_vars
    /\ [](linkSuccessAlert => ev.type = "fetchOk")
    /\ []((linkCalls = <<>> /\ \A i \in DOMAIN fetches : fetches[i].via /= "link")
             => ~linkingData)

(* C29: changing the search term does not change which rows are expanded:  *)
(* a row, identified by its identifier, that is in the filtered view       *)
(* before and after the change is expanded afterwards exactly if it was    *)
(* expanded before.                                                        *)
C29_SearchKeepsExpandedRows ==
    [][ev'.type = "search" =>
         \A i \in DOMAIN filteredItems, p \in DOMAIN filteredItems' :
            filteredItems[i].id = filteredItems'[p].id =>
               ((p - 1) \in expandedStates' <=> (i - 1) \in expandedStates)]_vars

(* C30: in Reses, with an amount entered for the row, send-guide first     *)
(* logs the amount and issues the guide request only after that log call   *)
(* has succeeded; when a call of send-guide fails, no further call is      *)
(* issued, the error is reported, the in-flight flag is cleared and the    *)
(* rows' sent statuses and history are unchanged.                          *)
C30_GuideAfterLoggedAmount ==
    /\ [](\A j \in DOMAIN pending :
            (pending[j].kind = "guia" /\ pending[j].amount /= "") =>
               \/ pending[j].stage = "log" /\ pending[j].calls = 1
               \/ pending[j].stage = "send" /\ pending[j].calls = 2)
    /\ [][(ev'.kind = "guia" /\ ev'.type = "callOk") =>
            \E j \in DOMAIN pending :
               /\ pending[j].stage = "log"
               /\ pending' = [pending EXCEPT ![j].stage = "send", ![j].calls = 2]]_vars
    /\ [][(ev'.kind = "guia" /\ ev'.type = "fail") =>
            /\ \E j \in DOMAIN pending :
                  pending[j].kind = "guia" /\ pending' = Remove(pending, j)
            /\ ev'.id \notin sendingGuia'
            /\ items' = items]_vars

C30_Witness ==
    /\ view = "Reses"
    /\ ev.kind = "guia" /\ ev.type = "callOk"
    /\ \E j \in DOMAIN pending :
          /\ pending[j].kind = "guia" /\ pending[j].row.id = ev.id
          /\ pending[j].amount /= ""
          /\ pending[j].stage = "send" /\ pending[j].calls = 2
    /\ ev.id \in sendingGuia

----------------------------------------------------------------------------
(* Paid toggles of a loaded Reses page whose requests all succeed *)

MaxToggles == 3

(* the handler together with the record of what was requested *)
handleTogglePaidRecorded(i, paidStatus) ==
    /\ handleTogglePaidWithin(i, paidStatus, MaxToggles)
    /\ lastToggle' = [id |-> filteredItems[i].id, paid |-> paidStatus, set |-> TRUE]

ToggleSteps ==
    \/ \E i \in 1..2, paidStatus \in BOOLEAN : handleTogglePaidRecorded(i, paidStatus)
    \/ \E j \in 1..MaxPending : ActionResolve(j, TRUE)

InitToggle == InitSearch /\ view = "Reses"

SpecToggle == InitToggle /\ [][ToggleSteps]_vars

(* C27: in Reses, once every paid toggle requested on a row has been       *)
(* answered successfully, the row's is_paid equals the value of the toggle *)
(* requested most recently on it, in whatever order the answers arrived.   *)
C27_LastToggleWins ==
    (lastToggle.set /\ \A j \in DOMAIN pending : pending[j].kind /= "paid") =>
        \A i \in DOMAIN items :
           items[i].id = lastToggle.id => items[i].is_paid = lastToggle.paid

====
